---- MODULE Spec2Model ----
(***************************************************************************)
(* A model of one chess session of src/app.py: the ChessGame object, the   *)
(* Flask request handlers that act on it and the background engine tasks   *)
(* they start.  Every request runs in a thread of its own (threaded=True), *)
(* so each handler is a sequence of steps of one thread; the steps of a    *)
(* method that takes self._lock are guarded by the lock.                   *)
(*                                                                         *)
(* The rules library (python-chess) is outside the repository.  It is      *)
(* modelled by a small game on the real 8x8 coordinates: White has a rook  *)
(* on a1..a3, Black a rook on h8..h6, a move steps a rook one square along *)
(* its file, and the game is over when a rook reaches its third square.    *)
(***************************************************************************)
EXTENDS Integers, Sequences, FiniteSets, TLC

VARIABLES
    board,                \* self.board: [pos, stack]
    move_history,         \* self.move_history: sequence of strings
    selected_square,      \* self.selected_square: <<file, rank>> or None
    last_move,            \* self.last_move: <<from, to>> or None
    game_mode,            \* self.game_mode
    engine_thinking,      \* self.engine_thinking
    engine_battle_active, \* self.engine_battle_active
    engine_ready,         \* self.engine_ready
    engine_white,         \* self.engine_white is not None
    engine_black,         \* self.engine_black is not None
    lock,                 \* self._lock: the thread holding it, or 0
    pc,                   \* each thread's position in its handler or task
    loc,                  \* each thread's local variables
    prior,                \* history variable: the board and the log before each
                          \* move applied since the last reset or FEN replacement
    games,                \* the global games dictionary, by session identifier
    games_lock,           \* games_lock: the thread holding it, or 0
    made,                 \* history variable: the ChessGame objects constructed
                          \* for each session identifier
    download              \* the file the last /api/save_game sent, with the
                          \* position and the log it was written from

vars == <<board, move_history, selected_square, last_move, game_mode,
          engine_thinking, engine_battle_active, engine_ready, engine_white,
          engine_black, lock, pc, loc, prior, games, games_lock, made, download>>

storeVars == <<games, games_lock, made>>

gameVars == <<board, move_history, selected_square, last_move, game_mode,
              engine_thinking, engine_battle_active, engine_ready, engine_white,
              engine_black>>

(***************************************************************************)
(* Bounds of the model.                                                    *)
(***************************************************************************)
NThreads == 3
MaxStack == 3
NSessions == 2

Threads == 1..NThreads

None == <<>>

(***************************************************************************)
(* The rules library.                                                      *)
(***************************************************************************)
WHITE == "w"
BLACK == "b"

Other(c) == IF c = WHITE THEN BLACK ELSE WHITE

\* chess.square(file, rank)
Square(file, rank) == rank * 8 + file

square_file(sq) == sq % 8

square_rank(sq) == sq \div 8

\* The squares the white rook (index 0..2: a1, a2, a3) and the black rook
\* (index 0..2: h8, h7, h6) stand on.
WSq(i) == Square(0, i)

BSq(i) == Square(7, 7 - i)


\* chess.Board(): the starting position.
StartPos == [turn |-> WHITE, wr |-> 0, br |-> 0]

\* board.piece_at(square) raises IndexError outside 0..63.
SquareRaises(sq) == sq \notin 0..63

\* board.piece_at(square).color, or NoPiece for an empty square.
NoPiece == "none"

PieceColorAt(p, sq) ==
    IF sq = WSq(p.wr) THEN WHITE
    ELSE IF sq = BSq(p.br) THEN BLACK
    ELSE NoPiece

\* board.is_game_over()
is_game_over(p) == p.wr = 2 \/ p.br = 2

\* chess.Move(from_square, to_square, promotion)
Move(f, t, pr) == [from |-> f, to |-> t, promo |-> pr]

NoMove == Move(-1, -1, 0)

\* board.legal_moves
legal_moves(p) ==
    IF is_game_over(p) THEN {}
    ELSE IF p.turn = WHITE
         THEN {Move(WSq(p.wr), WSq(j), 0) : j \in {k \in 0..2 : k = p.wr + 1 \/ k = p.wr - 1}}
         ELSE {Move(BSq(p.br), BSq(j), 0) : j \in {k \in 0..2 : k = p.br + 1 \/ k = p.br - 1}}

\* The position after a move (the position part of board.push).
Apply(p, m) ==
    IF p.turn = WHITE
    THEN [turn |-> BLACK, wr |-> square_rank(m.to), br |-> p.br]
    ELSE [turn |-> WHITE, wr |-> p.wr, br |-> 7 - square_rank(m.to)]

\* board.push(move): the stack keeps what board.pop() restores.
Push(b, m) == [pos |-> Apply(b.pos, m),
               stack |-> Append(b.stack, [move |-> m, prev |-> b.pos])]

\* board.pop()
Pop(b) == [pos |-> b.stack[Len(b.stack)].prev,
           stack |-> SubSeq(b.stack, 1, Len(b.stack) - 1)]

\* board.reset()
Reset == [pos |-> StartPos, stack |-> <<>>]

SquareName(sq) ==
    SubSeq("abcdefgh", square_file(sq) + 1, square_file(sq) + 1)
        \o ToString(square_rank(sq) + 1)

\* board.san(move)
San(p, m) ==
    "R" \o SquareName(m.to) \o (IF is_game_over(Apply(p, m)) THEN "#" ELSE "")

\* board.fen(): the placement fields and the side to move.
Fen(p) == <<p.wr, p.br, p.turn>>

FenValid(f) ==
    /\ Len(f) = 3
    /\ f[1] \in 0..2
    /\ f[2] \in 0..2
    /\ f[3] \in {WHITE, BLACK}

\* board.set_fen(fen): the new position; the move stack is cleared.
SetFen(f) == [pos |-> [turn |-> f[3], wr |-> f[1], br |-> f[2]], stack |-> <<>>]

(***************************************************************************)
(* Strings, as Python's str methods compute them.                          *)
(***************************************************************************)
\* c in s
Contains(s, c) == \E i \in 1..Len(s) : SubSeq(s, i, i) = c

\* s.endswith(c)
EndsWith(s, c) == Len(s) > 0 /\ SubSeq(s, Len(s), Len(s)) = c

FirstIndex(s, c) == CHOOSE i \in 1..Len(s) :
    /\ SubSeq(s, i, i) = c
    /\ \A j \in 1..(i - 1) : SubSeq(s, j, j) # c

\* s.split(' ', n)
RECURSIVE Split(_, _)
Split(s, n) ==
    IF n = 0 \/ ~Contains(s, " ") THEN <<s>>
    ELSE LET i == FirstIndex(s, " ")
         IN  <<SubSeq(s, 1, i - 1)>> \o Split(SubSeq(s, i + 1, Len(s)), n - 1)

\* ' '.join(parts)
RECURSIVE Join(_)
Join(parts) ==
    IF Len(parts) = 0 THEN ""
    ELSE IF Len(parts) = 1 THEN parts[1]
    ELSE parts[1] \o " " \o Join(Tail(parts))

\* The place of a character in a string, 0 when it is not there.
IndexIn(s, c) == IF Contains(s, c) THEN FirstIndex(s, c) ELSE 0

\* line.strip(), for spaces
RECURSIVE Strip(_)
Strip(s) ==
    IF Len(s) > 0 /\ SubSeq(s, 1, 1) = " " THEN Strip(SubSeq(s, 2, Len(s)))
    ELSE IF Len(s) > 0 /\ SubSeq(s, Len(s), Len(s)) = " " THEN Strip(SubSeq(s, 1, Len(s) - 1))
    ELSE s

\* chess.PIECE_SYMBOLS, from the pawn (1) to the king (6)
PieceSymbols == "pnbrqk"

\* move.uci()
Uci(m) ==
    SquareName(m.from) \o SquareName(m.to)
        \o (IF m.promo = 0 THEN "" ELSE SubSeq(PieceSymbols, m.promo, m.promo))

\* chess.Move.from_uci(uci): ok is false where it raises.
FromUci(uci) ==
    LET file(i) == IndexIn("abcdefgh", SubSeq(uci, i, i))
        rank(i) == IndexIn("12345678", SubSeq(uci, i, i))
        promo == IF Len(uci) = 5 THEN IndexIn(PieceSymbols, SubSeq(uci, 5, 5)) ELSE 0
        wellFormed ==
            /\ Len(uci) \in {4, 5}
            /\ file(1) > 0 /\ rank(2) > 0 /\ file(3) > 0 /\ rank(4) > 0
            /\ Len(uci) = 5 => promo > 0
            /\ <<file(1), rank(2)>> # <<file(3), rank(4)>>
    IN  IF uci = "0000" THEN [ok |-> TRUE, move |-> NoMove]
        ELSE IF wellFormed
        THEN [ok |-> TRUE, move |-> Move(Square(file(1) - 1, rank(2) - 1),
                                         Square(file(3) - 1, rank(4) - 1), promo)]
        ELSE [ok |-> FALSE, move |-> NoMove]

\* board.result()
Result(p) == IF p.wr = 2 THEN "1-0" ELSE IF p.br = 2 THEN "0-1" ELSE "*"

(***************************************************************************)
(* ChessGame: the pure parts of its methods.                               *)
(***************************************************************************)
\* self.player_color: set in __init__ and never assigned again.
player_color == WHITE

Modes == {"player_vs_engine", "player_vs_player", "engine_vs_engine"}

\* Fault: should_engine_move with the comparison of player_vs_engine inverted.
should_engine_move_inverted ==
    IF game_mode = "player_vs_player" THEN FALSE
    ELSE IF game_mode = "engine_vs_engine" THEN TRUE
    ELSE IF game_mode = "player_vs_engine" THEN board.pos.turn = player_color
    ELSE FALSE

\* ChessGame.should_engine_move
should_engine_move ==
    IF game_mode = "player_vs_player" THEN FALSE
    ELSE IF game_mode = "engine_vs_engine" THEN TRUE
    ELSE IF game_mode = "player_vs_engine" THEN board.pos.turn # player_color
    ELSE FALSE

\* Fault: make_move numbering White's entries by half-move instead of by pair.
HistoryAfterMoveByPly(hist, move_count, san) ==
    IF move_count % 2 = 1
    THEN Append(hist, ToString(move_count) \o ". " \o san)
    ELSE IF Len(hist) > 0
         THEN [hist EXCEPT ![Len(hist)] = @ \o " " \o san]
         ELSE Append(hist, ToString(move_count \div 2) \o "... " \o san)

\* make_move's update of move_history; move_count is len(board.move_stack)
\* after the push.
HistoryAfterMove(hist, move_count, san) ==
    IF move_count % 2 = 1
    THEN Append(hist, ToString((move_count + 1) \div 2) \o ". " \o san)
    ELSE IF Len(hist) > 0
         THEN [hist EXCEPT ![Len(hist)] = @ \o " " \o san]
         ELSE Append(hist, ToString(move_count \div 2) \o "... " \o san)

DropLast(seq) == SubSeq(seq, 1, Len(seq) - 1)

\* Fault: undo_move removing the last entry whatever it holds.
HistoryAfterUndoDroppingEntry(hist) ==
    IF Len(hist) = 0 THEN hist ELSE DropLast(hist)

\* undo_move's update of move_history.
HistoryAfterUndo(hist) ==
    IF Len(hist) = 0 THEN hist
    ELSE LET last_entry == hist[Len(hist)]
         IN  IF Contains(last_entry, " ") /\ ~EndsWith(last_entry, ".")
             THEN LET parts == Split(last_entry, 2)
                  IN  IF Len(parts) >= 3
                      THEN [hist EXCEPT ![Len(hist)] = Join(DropLast(parts))]
                      ELSE DropLast(hist)
             ELSE DropLast(hist)

\* What start_engines can do: no Stockfish is found, or both engines start.
EngineOutcomes == {"ok", "notfound"}

\* ChessGame.start_engines: <<engine_white, engine_black, engine_ready>> after it.
start_engines(out) ==
    IF out = "notfound" THEN <<engine_white, engine_black, engine_ready>>
    ELSE <<TRUE, TRUE, TRUE>>

\* The three fields start_engines assigns.
SetEngines(e) ==
    /\ engine_white' = e[1]
    /\ engine_black' = e[2]
    /\ engine_ready' = e[3]

(***************************************************************************)
(* Threads.                                                                *)
(***************************************************************************)
NoPos == [turn |-> "", wr |-> 0, br |-> 0]

NoPrior == [board |-> [pos |-> NoPos, stack |-> <<>>], log |-> <<>>]

Blank == [op |-> "", from |-> None, to |-> None, promo |-> 0, san |-> "",
          ret |-> "", sent |-> NoPos, exp |-> NoPrior, snap |-> None,
          move_count |-> 0, cancelled |-> FALSE, late |-> FALSE, sid |-> 0,
          file |-> <<>>, moves |-> <<>>, saved |-> FALSE]

\* Where a thread can be overtaken when handlers run one at a time: it has not
\* started, its task has not begun, or it waits for the engine.
YieldPcs == {"idle", "ge_guard", "ge_wait"}

CanRun(t) == \A u \in Threads \ {t} : pc[u] \in YieldPcs

\* Threads are interchangeable: a request or a task takes the first free one.
Idle(t) == pc[t] = "idle" /\ \A u \in 1..(t - 1) : pc[u] # "idle"

Free(u, t) == pc[u] = "idle" /\ \A v \in 1..(u - 1) : v = t \/ pc[v] # "idle"

\* The handler or task answers: its result is kept until the thread ends.
Answer(t, op, r) ==
    /\ pc' = [pc EXCEPT ![t] = "done"]
    /\ loc' = [loc EXCEPT ![t] = [Blank EXCEPT !.op = op, !.ret = r]]

\* threading.Thread(target=engine_move_task).start(): a free thread u begins
\* get_engine_move; t answers r.
Spawn(t, u, op, r) ==
    /\ u # t
    /\ Free(u, t)
    /\ pc' = [pc EXCEPT ![t] = "done", ![u] = "ge_guard"]
    /\ loc' = [loc EXCEPT ![t] = [Blank EXCEPT !.op = op, !.ret = r],
                          ![u] = [Blank EXCEPT !.op = "task"]]

\* Where make_move returns to.
AfterMakeMove(op) ==
    IF op = "move" THEN "mv_after" ELSE IF op = "load" THEN "ld_next" ELSE "ge_finally"

\* Where new_game returns to.
AfterNewGame(op) == IF op = "load" THEN "ld_next" ELSE "done"

\* No file has been saved yet.
NoDownload == [lines |-> <<>>, pos |-> NoPos, log |-> <<>>]

\* Where get_engine_move returns to: the battle loop, or the end of the task.
AfterGetEngineMove(op) == IF op = "battle" THEN "bt_after" ELSE "done"

(***************************************************************************)
(* The session store: games, games_lock and get_game.  A ChessGame of the  *)
(* store is shown by the fields /api/set_engine_settings acts on;          *)
(* serial tells one constructed object from another, and 0 is no object.   *)
(* Times are in hundredths of a second.                                    *)
(***************************************************************************)
SessionIds == 1..NSessions

NoGame == [serial |-> 0, engine_time_limit |-> 0, engine_level |-> 0]

\* ChessGame(): engine_time_limit = 2.0 and engine_level = 15
NewChessGame(n) == [serial |-> n, engine_time_limit |-> 200, engine_level |-> 15]

RECURSIVE Sum(_, _)
Sum(f, S) == IF S = {} THEN 0 ELSE LET x == CHOOSE y \in S : TRUE
                                   IN  f[x] + Sum(f, S \ {x})

Init ==
    /\ board = Reset
    /\ move_history = <<>>
    /\ selected_square = None
    /\ last_move = None
    /\ game_mode = "player_vs_engine"
    /\ engine_thinking = FALSE
    /\ engine_battle_active = FALSE
    /\ \E out \in EngineOutcomes :
        /\ engine_white = (out = "ok")
        /\ engine_black = (out = "ok")
        /\ engine_ready = (out = "ok")
    /\ lock = 0
    /\ pc = [t \in Threads |-> "idle"]
    /\ loc = [t \in Threads |-> Blank]
    /\ prior = <<>>
    /\ games = [id \in SessionIds |-> NoGame]
    /\ games_lock = 0
    /\ made = [id \in SessionIds |-> 0]
    /\ download = NoDownload


(***************************************************************************)
(* ChessGame.make_move, called by the move handler and by get_engine_move. *)
(***************************************************************************)
\* chess.square(from_square[0], from_square[1]) raises on a list that is too
\* short; the legality test raises on a square outside the board.
MoveRaises(from, to) ==
    \/ Len(from) < 2
    \/ Len(to) < 2
    \/ SquareRaises(Square(from[1], from[2]))
    \/ SquareRaises(Square(to[1], to[2]))

\* chess.Move(from_chess_square, to_chess_square, promotion=promotion)
CandidateMove(from, to, promo) ==
    Move(Square(from[1], from[2]), Square(to[1], to[2]), promo)

\* move in self.board.legal_moves, an exception counting as no.
MoveAccepted(from, to, promo) ==
    /\ ~MoveRaises(from, to)
    /\ CandidateMove(from, to, promo) \in legal_moves(board.pos)

\* with self._lock: the legality test, board.san and board.push.
MakeMoveCheck(t) ==
    /\ pc[t] = "mm_check"
    /\ lock = 0
    /\ LET from == loc[t].from
           to == loc[t].to
       IN  IF MoveAccepted(from, to, loc[t].promo)
           THEN LET m == CandidateMove(from, to, loc[t].promo)
                IN  /\ Len(board.stack) < MaxStack
                    /\ board' = Push(board, m)
                    /\ prior' = Append(prior, [board |-> board, log |-> move_history])
                    /\ lock' = t
                    /\ pc' = [pc EXCEPT ![t] = "mm_commit"]
                    /\ loc' = [loc EXCEPT ![t].san = San(board.pos, m)]
           ELSE /\ pc' = [pc EXCEPT ![t] = AfterMakeMove(loc[t].op)]
                /\ loc' = [loc EXCEPT ![t].ret = "False"]
                /\ UNCHANGED <<board, prior, lock>>
    /\ UNCHANGED <<move_history, selected_square, last_move, game_mode,
                   engine_thinking, engine_battle_active, engine_ready,
                   engine_white, engine_black>>

\* Fault: make_move leaving selected_square as it was.
MakeMoveCommitKeepingSelection(t) ==
    /\ pc[t] = "mm_commit"
    /\ lock = t
    /\ last_move' = <<loc[t].from, loc[t].to>>
    /\ move_history' = HistoryAfterMove(move_history, Len(board.stack), loc[t].san)
    /\ lock' = 0
    /\ pc' = [pc EXCEPT ![t] = AfterMakeMove(loc[t].op)]
    /\ loc' = [loc EXCEPT ![t].ret = "True"]
    /\ UNCHANGED <<board, selected_square, game_mode, engine_thinking,
                   engine_battle_active, engine_ready, engine_white, engine_black,
                   prior>>

\* Still under the lock: last_move, selected_square and move_history.
MakeMoveCommit(t) ==
    /\ pc[t] = "mm_commit"
    /\ lock = t
    /\ last_move' = <<loc[t].from, loc[t].to>>
    /\ selected_square' = None
    /\ move_history' = HistoryAfterMove(move_history, Len(board.stack), loc[t].san)
    /\ lock' = 0
    /\ pc' = [pc EXCEPT ![t] = AfterMakeMove(loc[t].op)]
    /\ loc' = [loc EXCEPT ![t].ret = "True"]
    /\ UNCHANGED <<board, game_mode, engine_thinking, engine_battle_active,
                   engine_ready, engine_white, engine_black, prior>>

(***************************************************************************)
(* /api/move                                                               *)
(***************************************************************************)
\* chess.QUEEN, what the handler makes of the promotion "queen".
QUEEN == 5

\* The [file, rank] lists a request may carry: the rooks' squares, a file
\* beyond the board whose square number is a2's, a rank beyond the board, a
\* list that is too short, and no list at all.
CoordInputs == {<<0, 0>>, <<0, 1>>, <<7, 7>>, <<7, 6>>, <<3, 3>>, <<8, 0>>, <<0, 8>>,
                <<0>>, None}

\* The moves a request may carry, as <<from, to, promotion>>: the rooks' steps,
\* a step with a promotion, a jump, a step from the out-of-range file, a step
\* to the out-of-range rank, a from list that is too short, and requests that
\* lack a square.
MoveInputs == {<<<<0, 0>>, <<0, 1>>, 0>>, <<<<0, 1>>, <<0, 0>>, 0>>, <<<<0, 1>>, <<0, 2>>, 0>>,
               <<<<7, 7>>, <<7, 6>>, 0>>, <<<<7, 6>>, <<7, 7>>, 0>>, <<<<7, 6>>, <<7, 5>>, 0>>,
               <<<<0, 0>>, <<0, 1>>, QUEEN>>, <<<<0, 0>>, <<0, 2>>, 0>>,
               <<<<8, 0>>, <<0, 2>>, 0>>, <<<<0, 0>>, <<0, 8>>, 0>>, <<<<0>>, <<0, 1>>, 0>>,
               <<None, <<0, 1>>, 0>>, <<<<0, 0>>, None, 0>>}

\* The handler up to its call of game.make_move.
StartMoveRequest(t, from, to, promo) ==
    /\ Idle(t)
    /\ \E u \in Threads \ {t} : pc[u] = "idle"
    /\ IF from = None \/ to = None
       THEN Answer(t, "move", "False")
       ELSE /\ pc' = [pc EXCEPT ![t] = "mm_check"]
            /\ loc' = [loc EXCEPT ![t] = [Blank EXCEPT !.op = "move", !.from = from,
                                                        !.to = to, !.promo = promo]]
    /\ UNCHANGED <<gameVars, lock, prior>>

\* The handler after game.make_move: it starts an engine task when the move
\* succeeded, the engine is to move and the game is not over.
MoveRequestTail(t) ==
    /\ pc[t] = "mv_after"
    /\ IF loc[t].ret = "True" /\ should_engine_move /\ ~is_game_over(board.pos)
       THEN \E u \in Threads : Spawn(t, u, "move", loc[t].ret)
       ELSE /\ pc' = [pc EXCEPT ![t] = "done"]
            /\ loc' = loc
    /\ UNCHANGED <<gameVars, lock, prior>>

(***************************************************************************)
(* /api/engine_move and ChessGame.get_engine_move                          *)
(***************************************************************************)
EngineMoveRequest(t) ==
    /\ Idle(t)
    /\ IF ~engine_ready \/ is_game_over(board.pos)
       THEN Answer(t, "engine_move", "False")
       ELSE \E u \in Threads : Spawn(t, u, "engine_move", "True")
    /\ UNCHANGED <<gameVars, lock, prior>>

\* The guard of get_engine_move, and its choice of the engine.
GetEngineMoveGuard(t) ==
    /\ pc[t] = "ge_guard"
    /\ LET current_engine == IF board.pos.turn = WHITE THEN engine_white ELSE engine_black
       IN  IF engine_thinking \/ is_game_over(board.pos) \/ ~engine_ready \/ ~current_engine
           THEN /\ pc' = [pc EXCEPT ![t] = AfterGetEngineMove(loc[t].op)]
                /\ loc' = [loc EXCEPT ![t].ret = "False"]
           ELSE /\ pc' = [pc EXCEPT ![t] = "ge_set"]
                /\ loc' = loc
    /\ UNCHANGED <<gameVars, lock, prior>>

\* Fault: get_engine_move taking self._lock for the whole search.
GetEngineMoveSetUnderLock(t) ==
    /\ pc[t] = "ge_set"
    /\ lock = 0
    /\ lock' = t
    /\ engine_thinking' = TRUE
    /\ pc' = [pc EXCEPT ![t] = "ge_wait"]
    /\ loc' = [loc EXCEPT ![t].sent = board.pos]
    /\ UNCHANGED <<board, move_history, selected_square, last_move, game_mode,
                   engine_battle_active, engine_ready, engine_white, engine_black,
                   prior>>

\* self.engine_thinking = True, and the position goes to the engine.
GetEngineMoveSet(t) ==
    /\ pc[t] = "ge_set"
    /\ engine_thinking' = TRUE
    /\ pc' = [pc EXCEPT ![t] = "ge_wait"]
    /\ loc' = [loc EXCEPT ![t].sent = board.pos]
    /\ UNCHANGED <<board, move_history, selected_square, last_move, game_mode,
                   engine_battle_active, engine_ready, engine_white, engine_black,
                   lock, prior>>

\* What current_engine.play can give for the position it was sent: a move
\* legal there, no move, a move that is not legal there, or an exception.
IllegalReply == Move(WSq(0), BSq(0), 0)

EngineReplies(p) ==
    {[kind |-> "move", move |-> m] : m \in legal_moves(p) \cup {IllegalReply}}
        \cup {[kind |-> k, move |-> NoMove] : k \in {"nomove", "raise"}}

\* The engine answers: the move is tested against the board as it is now and
\* handed to make_move.
EngineReply(t, r) ==
    /\ pc[t] = "ge_wait"
    /\ IF r.kind = "move" /\ r.move \in legal_moves(board.pos)
       THEN /\ pc' = [pc EXCEPT ![t] = "mm_check"]
            /\ loc' = [loc EXCEPT
                        ![t].from = <<square_file(r.move.from), square_rank(r.move.from)>>,
                        ![t].to = <<square_file(r.move.to), square_rank(r.move.to)>>,
                        ![t].promo = r.move.promo]
       ELSE /\ pc' = [pc EXCEPT ![t] = "ge_finally"]
            /\ loc' = [loc EXCEPT ![t].ret = IF r.kind = "raise" THEN "False" ELSE "None"]
    /\ UNCHANGED <<gameVars, lock, prior>>

\* finally: self.engine_thinking = False
GetEngineMoveFinally(t) ==
    /\ pc[t] = "ge_finally"
    /\ engine_thinking' = FALSE
    /\ pc' = [pc EXCEPT ![t] = AfterGetEngineMove(loc[t].op)]
    /\ loc' = loc
    /\ UNCHANGED <<board, move_history, selected_square, last_move, game_mode,
                   engine_battle_active, engine_ready, engine_white, engine_black,
                   lock, prior>>

(***************************************************************************)
(* /api/toggle_engine_battle and its battle_thread                         *)
(***************************************************************************)
\* max_moves, the cap on the half-moves of one battle.
max_moves == 200

\* The handler: it starts a battle when none is active, and stops the active
\* one otherwise; no lock is taken.
ToggleBattle(t) ==
    /\ Idle(t)
    /\ IF ~engine_ready
       THEN /\ Answer(t, "toggle", "False")
            /\ UNCHANGED <<engine_battle_active, game_mode>>
       ELSE IF ~engine_battle_active
            THEN IF ~(engine_white /\ engine_black)
                 THEN /\ Answer(t, "toggle", "False")
                      /\ UNCHANGED <<engine_battle_active, game_mode>>
                 ELSE /\ engine_battle_active' = TRUE
                      /\ game_mode' = "engine_vs_engine"
                      /\ \E u \in Threads \ {t} :
                            /\ Free(u, t)
                            /\ pc' = [pc EXCEPT ![t] = "done", ![u] = "bt_test"]
                            /\ loc' = [loc EXCEPT
                                        ![t] = [Blank EXCEPT !.op = "toggle", !.ret = "True"],
                                        ![u] = [Blank EXCEPT !.op = "battle"]]
            ELSE /\ engine_battle_active' = FALSE
                 /\ Answer(t, "toggle", "True")
                 /\ UNCHANGED game_mode
    /\ UNCHANGED <<board, move_history, selected_square, last_move, engine_thinking,
                   engine_ready, engine_white, engine_black, lock, prior>>

\* The condition of the while loop.  late records an iteration begun after a
\* mode change that found the loop running.
BattleTest(t) ==
    /\ pc[t] = "bt_test"
    /\ IF engine_battle_active /\ ~is_game_over(board.pos)
          /\ loc[t].move_count < max_moves
       THEN /\ pc' = [pc EXCEPT ![t] = "bt_call"]
            /\ loc' = [loc EXCEPT ![t].late = loc[t].cancelled]
       ELSE /\ pc' = [pc EXCEPT ![t] = "bt_exit"]
            /\ loc' = loc
    /\ UNCHANGED <<gameVars, lock, prior>>

\* if not game.engine_thinking: get_engine_move is called; else the loop sleeps
\* and tests its condition again.
BattleCall(t) ==
    /\ pc[t] = "bt_call"
    /\ IF ~engine_thinking
       THEN pc' = [pc EXCEPT ![t] = "ge_guard"]
       ELSE pc' = [pc EXCEPT ![t] = "bt_test"]
    /\ loc' = loc
    /\ UNCHANGED <<gameVars, lock, prior>>

\* get_engine_move has returned: the loop breaks when the cycle failed, and
\* counts the move otherwise.
BattleAfter(t) ==
    /\ pc[t] = "bt_after"
    /\ IF loc[t].ret # "True"
       THEN /\ pc' = [pc EXCEPT ![t] = "bt_exit"]
            /\ loc' = loc
       ELSE /\ pc' = [pc EXCEPT ![t] = "bt_test"]
            /\ loc' = [loc EXCEPT ![t].move_count = loc[t].move_count + 1,
                                  ![t].ret = ""]
    /\ UNCHANGED <<gameVars, lock, prior>>

\* After the loop: game.engine_battle_active = False
BattleExit(t) ==
    /\ pc[t] = "bt_exit"
    /\ engine_battle_active' = FALSE
    /\ pc' = [pc EXCEPT ![t] = "done"]
    /\ loc' = loc
    /\ UNCHANGED <<board, move_history, selected_square, last_move, game_mode,
                   engine_thinking, engine_ready, engine_white, engine_black,
                   lock, prior>>

(***************************************************************************)
(* /api/undo_move and ChessGame.undo_move                                  *)
(***************************************************************************)
\* with self._lock: the test of the move stack and board.pop().
UndoStart(t) ==
    /\ Idle(t)
    /\ lock = 0
    /\ IF Len(board.stack) > 0
       THEN /\ board' = Pop(board)
            /\ lock' = t
            /\ pc' = [pc EXCEPT ![t] = "un_commit"]
            /\ loc' = [loc EXCEPT ![t] = [Blank EXCEPT !.op = "undo",
                           !.exp = IF Len(prior) > 0 THEN prior[Len(prior)] ELSE NoPrior]]
            /\ prior' = DropLast(prior)
       ELSE /\ Answer(t, "undo", "False")
            /\ UNCHANGED <<board, lock, prior>>
    /\ UNCHANGED <<move_history, selected_square, last_move, game_mode,
                   engine_thinking, engine_battle_active, engine_ready,
                   engine_white, engine_black>>

\* Still under the lock: move_history, selected_square and last_move.
UndoCommit(t) ==
    /\ pc[t] = "un_commit"
    /\ lock = t
    /\ move_history' = HistoryAfterUndo(move_history)
    /\ selected_square' = None
    /\ last_move' = None
    /\ lock' = 0
    /\ pc' = [pc EXCEPT ![t] = "done"]
    /\ loc' = [loc EXCEPT ![t].ret = "True"]
    /\ UNCHANGED <<board, game_mode, engine_thinking, engine_battle_active,
                   engine_ready, engine_white, engine_black, prior>>

(***************************************************************************)
(* /api/new_game and ChessGame.new_game                                    *)
(***************************************************************************)
\* with self._lock: self.board.reset()
NewGameStart(t) ==
    /\ Idle(t) \/ pc[t] = "ld_new"
    /\ lock = 0
    /\ board' = Reset
    /\ prior' = <<>>
    /\ lock' = t
    /\ pc' = [pc EXCEPT ![t] = "ng_commit"]
    /\ loc' = IF pc[t] = "ld_new" THEN loc
              ELSE [loc EXCEPT ![t] = [Blank EXCEPT !.op = "new_game"]]
    /\ UNCHANGED <<move_history, selected_square, last_move, game_mode,
                   engine_thinking, engine_battle_active, engine_ready,
                   engine_white, engine_black>>

\* Still under the lock: the other fields, and start_engines when the engines
\* are not ready.
NewGameCommit(t, out) ==
    /\ pc[t] = "ng_commit"
    /\ lock = t
    /\ move_history' = <<>>
    /\ selected_square' = None
    /\ last_move' = None
    /\ engine_battle_active' = FALSE
    /\ engine_thinking' = FALSE
    /\ IF ~engine_ready
       THEN SetEngines(start_engines(out))
       ELSE /\ out = "ok"
            /\ UNCHANGED <<engine_white, engine_black, engine_ready>>
    /\ lock' = 0
    /\ pc' = [pc EXCEPT ![t] = AfterNewGame(loc[t].op)]
    /\ loc' = [loc EXCEPT ![t].ret = "True"]
    /\ UNCHANGED <<board, game_mode, prior>>

(***************************************************************************)
(* /api/set_position                                                       *)
(***************************************************************************)
\* The FEN strings a request may carry: positions with either side to move,
\* one of them over, a string that is no FEN, and none.
FenInputs == {<<0, 0, BLACK>>, <<1, 1, WHITE>>, <<2, 1, BLACK>>, <<9, 9, "x">>, None}

\* The handler up to game.board.set_fen(fen); no lock is taken.
SetPositionStart(t, fen) ==
    /\ Idle(t)
    /\ IF fen = None \/ ~FenValid(fen)
       THEN /\ Answer(t, "set_position", "False")
            /\ UNCHANGED <<board, prior>>
       ELSE /\ board' = SetFen(fen)
            /\ prior' = <<>>
            /\ pc' = [pc EXCEPT ![t] = "sp_commit"]
            /\ loc' = [loc EXCEPT ![t] = [Blank EXCEPT !.op = "set_position"]]
    /\ UNCHANGED <<move_history, selected_square, last_move, game_mode,
                   engine_thinking, engine_battle_active, engine_ready,
                   engine_white, engine_black, lock>>

\* move_history, selected_square and last_move are cleared.
SetPositionCommit(t) ==
    /\ pc[t] = "sp_commit"
    /\ move_history' = <<>>
    /\ selected_square' = None
    /\ last_move' = None
    /\ pc' = [pc EXCEPT ![t] = "done"]
    /\ loc' = [loc EXCEPT ![t].ret = "True"]
    /\ UNCHANGED <<board, game_mode, engine_thinking, engine_battle_active,
                   engine_ready, engine_white, engine_black, lock, prior>>

(***************************************************************************)
(* /api/select_square                                                      *)
(***************************************************************************)
\* The handler up to its test of engine_thinking and the battle; no lock is
\* taken.
SelectStart(t, sq) ==
    /\ Idle(t)
    /\ IF sq = None \/ Len(sq) < 2
       THEN Answer(t, "select", "False")
       ELSE IF engine_thinking
               \/ (game_mode = "engine_vs_engine" /\ engine_battle_active)
            THEN Answer(t, "select", "False")
            ELSE /\ pc' = [pc EXCEPT ![t] = "ss_write"]
                 /\ loc' = [loc EXCEPT ![t] = [Blank EXCEPT !.op = "select", !.from = sq]]
    /\ UNCHANGED <<gameVars, lock, prior>>

\* The square is selected when it holds a piece of the side to move (and of the
\* player, in player_vs_engine mode), and cleared otherwise.
SelectWrite(t) ==
    /\ pc[t] = "ss_write"
    /\ LET sq == loc[t].from
           square == Square(sq[1], sq[2])
           color == PieceColorAt(board.pos, square)
       IN  IF SquareRaises(square)
           THEN /\ loc' = [loc EXCEPT ![t].ret = "False"]
                /\ UNCHANGED selected_square
           ELSE /\ loc' = [loc EXCEPT ![t].ret = "True"]
                /\ IF game_mode = "player_vs_engine"
                   THEN IF color # NoPiece /\ color = player_color
                           /\ board.pos.turn = player_color
                        THEN selected_square' = sq
                        ELSE selected_square' = None
                   ELSE IF color # NoPiece /\ color = board.pos.turn
                        THEN selected_square' = sq
                        ELSE selected_square' = None
    /\ pc' = [pc EXCEPT ![t] = "done"]
    /\ UNCHANGED <<board, move_history, last_move, game_mode, engine_thinking,
                   engine_battle_active, engine_ready, engine_white, engine_black,
                   lock, prior>>

(***************************************************************************)
(* /api/set_game_mode                                                      *)
(***************************************************************************)
\* The bodies a request may carry, as the list of their mode values: each mode,
\* a name that is no mode, and a body without a mode.
ModeInputs == {<<m>> : m \in Modes} \cup {<<"blitz">>, <<>>}

\* data.get('mode', 'player_vs_engine')
RequestedMode(data) == IF data = <<>> THEN "player_vs_engine" ELSE data[1]

\* The handler; no lock is taken.  cancelled marks the battle loops that were
\* running when the mode was set.
SetGameMode(t, data, out) ==
    /\ Idle(t)
    /\ LET mode == RequestedMode(data)
       IN  IF mode \notin Modes
           THEN /\ out = "ok"
                /\ Answer(t, "set_game_mode", "False")
                /\ UNCHANGED <<game_mode, engine_battle_active, engine_white,
                               engine_black, engine_ready>>
           ELSE /\ game_mode' = mode
                /\ engine_battle_active' = FALSE
                /\ IF mode # "player_vs_player" /\ ~engine_ready
                   THEN SetEngines(start_engines(out))
                   ELSE /\ out = "ok"
                        /\ UNCHANGED <<engine_white, engine_black, engine_ready>>
                /\ pc' = [pc EXCEPT ![t] = "done"]
                /\ loc' = [u \in Threads |->
                            IF u = t
                            THEN [Blank EXCEPT !.op = "set_game_mode", !.ret = "True"]
                            ELSE IF loc[u].op = "battle" /\ pc[u] # "done"
                                 THEN [loc[u] EXCEPT !.cancelled = TRUE]
                                 ELSE loc[u]]
    /\ UNCHANGED <<board, move_history, selected_square, last_move,
                   engine_thinking, lock, prior>>

(***************************************************************************)
(* get_game and /api/set_engine_settings                                   *)
(***************************************************************************)
\* A request arrives with its session identifier and calls get_game.
StartSettingsRequest(t, id) ==
    /\ Idle(t)
    /\ pc' = [pc EXCEPT ![t] = "gg_enter"]
    /\ loc' = [loc EXCEPT ![t] = [Blank EXCEPT !.op = "settings", !.sid = id]]
    /\ UNCHANGED storeVars

\* Fault: get_game going on without games_lock.
GetGameEnterWithoutLock(t) ==
    /\ pc[t] = "gg_enter"
    /\ pc' = [pc EXCEPT ![t] = "gg_check"]
    /\ UNCHANGED <<loc, storeVars>>

\* with games_lock:
GetGameEnter(t) ==
    /\ pc[t] = "gg_enter"
    /\ games_lock = 0
    /\ games_lock' = t
    /\ pc' = [pc EXCEPT ![t] = "gg_check"]
    /\ UNCHANGED <<loc, games, made>>

\* if game_id not in games; when it is there the lock is released.
GetGameCheck(t) ==
    /\ pc[t] = "gg_check"
    /\ IF games[loc[t].sid].serial = 0
       THEN /\ pc' = [pc EXCEPT ![t] = "gg_create"]
            /\ UNCHANGED games_lock
       ELSE /\ pc' = [pc EXCEPT ![t] = "gg_ret"]
            /\ games_lock' = 0
    /\ UNCHANGED <<loc, games, made>>

\* games[game_id] = ChessGame(), and the lock is released.
GetGameCreate(t) ==
    /\ pc[t] = "gg_create"
    /\ games' = [games EXCEPT ![loc[t].sid] = NewChessGame(Sum(made, SessionIds) + 1)]
    /\ made' = [made EXCEPT ![loc[t].sid] = @ + 1]
    /\ games_lock' = 0
    /\ pc' = [pc EXCEPT ![t] = "gg_ret"]
    /\ UNCHANGED loc

\* The values a body may carry for time_limit (in hundredths of a second) and
\* for level: none, numbers inside and outside the bounds, and a value that is
\* no number.
Number(v) == [ok |-> TRUE, val |-> v]

NotANumber == [ok |-> FALSE, val |-> 0]

TimeInputs == {<<>>, <<Number(10)>>, <<Number(6000)>>, <<Number(12000)>>, <<NotANumber>>}

LevelInputs == {<<>>, <<Number(0)>>, <<Number(20)>>, <<Number(21)>>, <<NotANumber>>}

\* The bodies a request may carry, as <<time_limit, level>>: one setting, both
\* with a level that is no number, or neither.
SettingsInputs ==
    {<<time_limit, <<>>>> : time_limit \in TimeInputs}
        \cup {<<<<>>, level>> : level \in LevelInputs}
        \cup {<<<<Number(6000)>>, <<NotANumber>>>>}

\* float(...) and int(...) raise on a value that is no number.
Raises(field) == field # <<>> /\ ~field[1].ok

\* if 0.1 <= time_limit <= 60
TimeAccepted(field) == field # <<>> /\ field[1].ok /\ 10 <= field[1].val /\ field[1].val <= 6000

\* if 0 <= level <= 20
LevelAccepted(field) == field # <<>> /\ field[1].ok /\ 0 <= field[1].val /\ field[1].val <= 20

\* The game after the handler: time_limit is dealt with before level, and an
\* exception ends the handler where it is raised.
AfterSettings(g, time_limit, level) ==
    LET g1 == IF TimeAccepted(time_limit)
              THEN [g EXCEPT !.engine_time_limit = time_limit[1].val] ELSE g
    IN  IF Raises(time_limit) THEN g
        ELSE IF LevelAccepted(level)
             THEN [g1 EXCEPT !.engine_level = level[1].val] ELSE g1

\* The handler after get_game: it answers success unless an exception was
\* raised.
SetEngineSettings(t, time_limit, level) ==
    /\ pc[t] = "gg_ret"
    /\ games' = [games EXCEPT ![loc[t].sid] = AfterSettings(@, time_limit, level)]
    /\ pc' = [pc EXCEPT ![t] = "done"]
    /\ loc' = [loc EXCEPT ![t].ret = IF Raises(time_limit) \/ Raises(level)
                                      THEN "False" ELSE "True",
                          ![t].snap = <<games[loc[t].sid].serial>>]
    /\ UNCHANGED <<games_lock, made>>

(***************************************************************************)
(* /api/save_game and /api/load_game                                       *)
(***************************************************************************)
\* The file save_game writes, line by line: the headers, the moves of the move
\* stack in UCI, and the result.
SavedFile(b) ==
    <<"[Event \"Flask Chess Game\"]", "[Date \"2026.01.01\"]",
      "[White \"Player/Engine\"]", "[Black \"Player/Engine\"]",
      "[Result \"" \o Result(b.pos) \o "\"]", "[FEN \"a1 h8 w\"]", "">>
        \o [i \in 1..Len(b.stack) |-> Uci(b.stack[i].move)]
        \o <<"", Result(b.pos)>>

\* The handler; no lock is taken.
SaveGame(t) ==
    /\ Idle(t)
    /\ download' = [lines |-> SavedFile(board), pos |-> board.pos, log |-> move_history]
    /\ Answer(t, "save", "True")
    /\ UNCHANGED <<gameVars, lock, prior>>

\* The lines load_game takes for moves: not a header, not a result, at least
\* four characters and no '.' among the first three.
IsMoveLine(line) ==
    /\ Len(line) > 0
    /\ SubSeq(line, 1, 1) # "["
    /\ line \notin {"1-0", "0-1", "1/2-1/2", "*"}
    /\ Len(line) >= 4
    /\ ~Contains(SubSeq(line, 1, 3), ".")

MoveLines(lines) == SelectSeq([i \in 1..Len(lines) |-> Strip(lines[i])], IsMoveLine)

\* The uploads a request may carry, as the list of the file's lines or no file:
\* a game of two moves with a header and a result, a file with an illegal
\* token, one with a token that is no move, and one with lines that are
\* skipped around a single move.
FileInputs == {<<>>,
               <<<<"[Event \"x\"]", "", "a1a2", "h8h7", "", "*">>>>,
               <<<<"a1a2", "a1a3", "h8h7">>>>,
               <<<<"a1a2", "h8h7", "zzzz", "a2a3">>>>,
               <<<<" a1a2 ", "a1", "1. a1a2", "1-0">>>>}

\* The handler up to game.new_game().  saved tells that the upload is the file
\* of the last save.
LoadStart(t, upload, saved) ==
    /\ Idle(t)
    /\ IF upload = <<>>
       THEN Answer(t, "load", "False")
       ELSE /\ pc' = [pc EXCEPT ![t] = "ld_new"]
            /\ loc' = [loc EXCEPT ![t] = [Blank EXCEPT !.op = "load", !.file = upload[1],
                                                        !.moves = MoveLines(upload[1]),
                                                        !.saved = saved]]
    /\ UNCHANGED <<gameVars, lock, prior, download>>

\* Fault: load_game passing over an illegal token and going on.
LoadNextSkippingIllegal(t) ==
    /\ pc[t] = "ld_next"
    /\ IF Len(loc[t].moves) = 0
       THEN /\ pc' = [pc EXCEPT ![t] = "done"]
            /\ loc' = [loc EXCEPT ![t].ret = "True"]
       ELSE LET move_uci == Head(loc[t].moves)
                parsed == FromUci(move_uci)
                move == parsed.move
            IN  IF ~parsed.ok
                THEN /\ pc' = [pc EXCEPT ![t] = "done"]
                     /\ loc' = [loc EXCEPT ![t].ret = "Invalid move format: " \o move_uci]
                ELSE IF move \in legal_moves(board.pos)
                THEN /\ pc' = [pc EXCEPT ![t] = "mm_check"]
                     /\ loc' = [loc EXCEPT
                                 ![t].from = <<square_file(move.from), square_rank(move.from)>>,
                                 ![t].to = <<square_file(move.to), square_rank(move.to)>>,
                                 ![t].promo = move.promo,
                                 ![t].moves = Tail(loc[t].moves)]
                ELSE /\ pc' = pc
                     /\ loc' = [loc EXCEPT ![t].moves = Tail(loc[t].moves)]
    /\ UNCHANGED <<gameVars, lock, prior, download>>

\* One turn of the replay loop: the next token is parsed, tested against the
\* board and handed to make_move; the handler answers at the first token that
\* is no move or not legal, and after the last one.
LoadNext(t) ==
    /\ pc[t] = "ld_next"
    /\ IF Len(loc[t].moves) = 0
       THEN /\ pc' = [pc EXCEPT ![t] = "done"]
            /\ loc' = [loc EXCEPT ![t].ret = "True"]
       ELSE LET move_uci == Head(loc[t].moves)
                parsed == FromUci(move_uci)
                move == parsed.move
            IN  IF ~parsed.ok
                THEN /\ pc' = [pc EXCEPT ![t] = "done"]
                     /\ loc' = [loc EXCEPT ![t].ret = "Invalid move format: " \o move_uci]
                ELSE IF move \in legal_moves(board.pos)
                THEN /\ pc' = [pc EXCEPT ![t] = "mm_check"]
                     /\ loc' = [loc EXCEPT
                                 ![t].from = <<square_file(move.from), square_rank(move.from)>>,
                                 ![t].to = <<square_file(move.to), square_rank(move.to)>>,
                                 ![t].promo = move.promo,
                                 ![t].moves = Tail(loc[t].moves)]
                ELSE /\ pc' = [pc EXCEPT ![t] = "done"]
                     /\ loc' = [loc EXCEPT ![t].ret = "Illegal move: " \o move_uci]
    /\ UNCHANGED <<gameVars, lock, prior, download>>

(***************************************************************************)
(* /api/game_state and ChessGame.get_board_state                           *)
(***************************************************************************)
\* The fields of the snapshot that tell the position and the log; no lock is
\* taken.
get_board_state ==
    [turn |-> board.pos.turn, fen |-> Fen(board.pos), move_history |-> move_history,
     selected_square |-> selected_square, last_move |-> last_move,
     game_over |-> is_game_over(board.pos), engine_thinking |-> engine_thinking,
     engine_battle_active |-> engine_battle_active, engine_ready |-> engine_ready,
     game_mode |-> game_mode]

GameState(t) ==
    /\ Idle(t)
    /\ pc' = [pc EXCEPT ![t] = "done"]
    /\ loc' = [loc EXCEPT ![t] = [Blank EXCEPT !.op = "game_state", !.ret = "True",
                                                !.snap = <<get_board_state>>]]
    /\ UNCHANGED <<gameVars, lock, prior>>

\* The response is sent, or the task ends: the thread is free again.
Return(t) ==
    /\ pc[t] = "done"
    /\ pc' = [pc EXCEPT ![t] = "idle"]
    /\ loc' = [loc EXCEPT ![t] = Blank]
    /\ UNCHANGED <<gameVars, lock, prior>>

(***************************************************************************)
(* The specifications.                                                     *)
(***************************************************************************)
\* The steps of a game: moves by request and by the engine, undo, new game.
PlayStepWith(t, inputs) ==
    \/ \E mv \in inputs : StartMoveRequest(t, mv[1], mv[2], mv[3])
    \/ MakeMoveCheck(t)
    \/ MakeMoveCommit(t)
    \/ MoveRequestTail(t)
    \/ EngineMoveRequest(t)
    \/ GetEngineMoveGuard(t)
    \/ GetEngineMoveSet(t)
    \/ \E r \in EngineReplies(loc[t].sent) : EngineReply(t, r)
    \/ GetEngineMoveFinally(t)
    \/ UndoStart(t)
    \/ UndoCommit(t)
    \/ NewGameStart(t)
    \/ \E out \in EngineOutcomes : NewGameCommit(t, out)
    \/ GameState(t)
    \/ Return(t)

PlayStep(t) == PlayStepWith(t, MoveInputs)

\* The other requests.
OtherStep(t) ==
    \/ \E fen \in FenInputs : SetPositionStart(t, fen)
    \/ SetPositionCommit(t)
    \/ \E sq \in CoordInputs : SelectStart(t, sq)
    \/ SelectWrite(t)
    \/ \E data \in ModeInputs, out \in EngineOutcomes : SetGameMode(t, data, out)

\* Handlers run one at a time: a thread steps only while every other thread
\* has not started or waits for the engine.
Next ==
    /\ \E t \in Threads : CanRun(t) /\ (PlayStep(t) \/ OtherStep(t))
    /\ UNCHANGED <<storeVars, download>>

Spec == Init /\ [][Next]_vars

\* Games from the starting position only, handlers one at a time.
NextPlay ==
    /\ \E t \in Threads : CanRun(t) /\ PlayStep(t)
    /\ UNCHANGED <<storeVars, download>>

SpecPlay == Init /\ [][NextPlay]_vars

\* Games from the starting position, the threads' steps interleaved freely.
\* Interleaved, requests carry the rooks' steps only.
ConcMoveInputs == {<<<<0, 0>>, <<0, 1>>, 0>>, <<<<0, 1>>, <<0, 0>>, 0>>, <<<<0, 1>>, <<0, 2>>, 0>>,
                   <<<<7, 7>>, <<7, 6>>, 0>>, <<<<7, 6>>, <<7, 7>>, 0>>, <<<<7, 6>>, <<7, 5>>, 0>>}

NextConc ==
    /\ \E t \in Threads : PlayStepWith(t, ConcMoveInputs)
    /\ UNCHANGED <<storeVars, download>>

SpecConc == Init /\ [][NextConc]_vars

\* A battle between the engines, the threads' steps interleaved freely: the
\* battle loops with the requests that toggle the battle, set the mode and
\* select a square.
BattleSquares == {<<0, 0>>}

BattleModes == {<<"player_vs_player">>, <<"engine_vs_engine">>}

\* In a battle the engine gives a legal move or fails.
BattleReplies(p) ==
    {r \in EngineReplies(p) : r.kind = "raise" \/ (r.kind = "move" /\ r.move # IllegalReply)}

BattleStep(t) ==
    \/ ToggleBattle(t)
    \/ BattleTest(t)
    \/ BattleCall(t)
    \/ BattleAfter(t)
    \/ BattleExit(t)
    \/ GetEngineMoveGuard(t)
    \/ GetEngineMoveSet(t)
    \/ \E r \in BattleReplies(loc[t].sent) : EngineReply(t, r)
    \/ GetEngineMoveFinally(t)
    \/ MakeMoveCheck(t)
    \/ MakeMoveCommit(t)
    \/ \E sq \in BattleSquares : SelectStart(t, sq)
    \/ SelectWrite(t)
    \/ \E data \in BattleModes : SetGameMode(t, data, "ok")
    \/ Return(t)

NextBattle ==
    /\ \E t \in Threads : BattleStep(t)
    /\ UNCHANGED <<storeVars, download>>

SpecBattle == Init /\ [][NextBattle]_vars

\* Move requests and the engine tasks they start, handlers one at a time, in
\* every mode: no task is started but by a move request.
TurnStep(t) ==
    \/ \E mv \in ConcMoveInputs : StartMoveRequest(t, mv[1], mv[2], mv[3])
    \/ MakeMoveCheck(t)
    \/ MakeMoveCommit(t)
    \/ MoveRequestTail(t)
    \/ GetEngineMoveGuard(t)
    \/ GetEngineMoveSet(t)
    \/ \E r \in EngineReplies(loc[t].sent) : EngineReply(t, r)
    \/ GetEngineMoveFinally(t)
    \/ \E mode \in Modes : SetGameMode(t, <<mode>>, "ok")
    \/ Return(t)

NextTurn ==
    /\ \E t \in Threads : CanRun(t) /\ TurnStep(t)
    /\ UNCHANGED <<storeVars, download>>

SpecTurn == Init /\ [][NextTurn]_vars

\* Games that are saved and loaded, handlers one at a time: the steps of a
\* game, FEN replacement, and the requests that save and load.
FileStep(t) ==
    \/ \E upload \in FileInputs : LoadStart(t, upload, FALSE)
    \/ download # NoDownload /\ LoadStart(t, <<download.lines>>, TRUE)
    \/ LoadNext(t)

NextFile ==
    \/ /\ \E t \in Threads : CanRun(t) /\ (PlayStepWith(t, ConcMoveInputs) \/ FileStep(t))
       /\ UNCHANGED <<storeVars, download>>
    \/ /\ \E t \in Threads : CanRun(t) /\ \/ \E fen \in FenInputs : SetPositionStart(t, fen)
                                          \/ SetPositionCommit(t)
       /\ UNCHANGED <<storeVars, download>>
    \/ /\ \E t \in Threads : CanRun(t) /\ SaveGame(t)
       /\ UNCHANGED storeVars

SpecFile == Init /\ [][NextFile]_vars

\* The session store, the threads' steps interleaved freely: requests of
\* several sessions that set the engine settings.
StoreStep(t) ==
    \/ \E id \in SessionIds : StartSettingsRequest(t, id)
    \/ GetGameEnter(t)
    \/ GetGameCheck(t)
    \/ GetGameCreate(t)
    \/ \E data \in SettingsInputs : SetEngineSettings(t, data[1], data[2])

NextStore ==
    \/ /\ \E t \in Threads : StoreStep(t)
       /\ UNCHANGED <<gameVars, lock, prior, download>>
    \/ /\ \E t \in Threads : Return(t)
       /\ UNCHANGED <<storeVars, download>>

SpecStore == Init /\ [][NextStore]_vars

(***************************************************************************)
(* What the properties speak of.                                           *)
(***************************************************************************)
CountChar(s, c) == Cardinality({i \in 1..Len(s) : SubSeq(s, i, i) = c})

\* The half-moves a log records: each is written after one space.
RECURSIVE HalfMoves(_)
HalfMoves(hist) ==
    IF Len(hist) = 0 THEN 0 ELSE CountChar(Head(hist), " ") + HalfMoves(Tail(hist))

\* The side to move that a log of n half-moves stands for.
SideAfter(n) == IF n % 2 = 0 THEN WHITE ELSE BLACK

\* An engine-move computation of thread t is in flight: engine_thinking has
\* been set and the finally block is not reached.
InFlight(t) ==
    \/ pc[t] = "ge_wait"
    \/ loc[t].op = "task" /\ pc[t] \in {"mm_check", "mm_commit"}

\* make_move has returned True to thread t's caller.
MoveReturnedTrue(t) == pc[t] \in {"mv_after", "ge_finally"} /\ loc[t].ret = "True"

\* A [file, rank] list that is no square of the board.
Malformed(c) == Len(c) < 2 \/ c[1] \notin 0..7 \/ c[2] \notin 0..7

\* The move thread t asks for is not a legal move between squares of the board.
BadMove(t) ==
    \/ Malformed(loc[t].from)
    \/ Malformed(loc[t].to)
    \/ CandidateMove(loc[t].from, loc[t].to, loc[t].promo) \notin legal_moves(board.pos)

SanOf(e) == San(e.prev, e.move)

\* The log of a game played from the starting position, written from its moves.
ExpectedLog(stack) ==
    [i \in 1..((Len(stack) + 1) \div 2) |->
        ToString(i) \o ". " \o SanOf(stack[2 * i - 1])
            \o (IF 2 * i <= Len(stack) THEN " " \o SanOf(stack[2 * i]) ELSE "")]

(***************************************************************************)
(* C1: at most one engine-move computation is in flight at any time.       *)
(***************************************************************************)
AtMostOneComputation == Cardinality({t \in Threads : InFlight(t)}) <= 1

(***************************************************************************)
(* C2: when make_move returns True the move was legal in the position      *)
(* before it, the side to move has flipped, the move stack and the log     *)
(* hold one half-move more, last_move is the move's (from, to) and the     *)
(* selection is cleared; a move request answered False was not legal.      *)
(***************************************************************************)
LegalMoveApplied ==
    \A t \in Threads :
        /\ MoveReturnedTrue(t) =>
            /\ Len(prior) > 0
            /\ LET before == prior[Len(prior)]
                   m == CandidateMove(loc[t].from, loc[t].to, loc[t].promo)
               IN  /\ m \in legal_moves(before.board.pos)
                   /\ board.pos.turn = Other(before.board.pos.turn)
                   /\ board.stack = Append(before.board.stack,
                                           [move |-> m, prev |-> before.board.pos])
                   /\ Len(move_history) >= 1
                   /\ HalfMoves(move_history) = HalfMoves(before.log) + 1
                   /\ last_move = <<loc[t].from, loc[t].to>>
                   /\ selected_square = None
        /\ (pc[t] = "mv_after" /\ loc[t].ret = "False") =>
            ~MoveAccepted(loc[t].from, loc[t].to, loc[t].promo)

\* make_move has returned True for Black's half-move of the first pair.
LegalMoveAppliedWitness ==
    \E t \in Threads : MoveReturnedTrue(t) /\ Len(board.stack) = 2

(***************************************************************************)
(* C3: make_move answers an illegal or malformed move, out-of-range        *)
(* coordinates included, with False and changes nothing.                   *)
(***************************************************************************)
BadMoveRejected ==
    [][\A t \in Threads :
          (MakeMoveCheck(t) /\ BadMove(t)) =>
              /\ loc'[t].ret = "False"
              /\ UNCHANGED gameVars]_vars

(***************************************************************************)
(* C4: undo_move after N >= 1 applied moves returns True and leaves the    *)
(* board and the log as they were before the Nth move; with N = 0 it       *)
(* returns False and changes nothing.                                      *)
(***************************************************************************)
UndoRestores ==
    /\ [](\A t \in Threads :
            (pc[t] = "done" /\ loc[t].op = "undo" /\ loc[t].ret = "True") =>
                /\ loc[t].exp # NoPrior
                /\ board = loc[t].exp.board
                /\ move_history = loc[t].exp.log)
    /\ [][\A t \in Threads :
            UndoStart(t) =>
                IF Len(prior) = 0
                THEN loc'[t].ret = "False" /\ UNCHANGED gameVars
                ELSE pc'[t] = "un_commit"]_vars

\* An undo of Black's half-move of a pair has returned True.
UndoRestoresWitness ==
    \E t \in Threads :
        /\ pc[t] = "done"
        /\ loc[t].op = "undo"
        /\ loc[t].ret = "True"
        /\ Len(board.stack) = 1

(***************************************************************************)
(* C5: should_engine_move is False in player_vs_player, True in            *)
(* engine_vs_engine, and (side to move # player_color) in player_vs_engine.*)
(***************************************************************************)
ShouldEngineMoveByMode ==
    /\ game_mode = "player_vs_player" => ~should_engine_move
    /\ game_mode = "engine_vs_engine" => should_engine_move
    /\ game_mode = "player_vs_engine" =>
           (should_engine_move <=> board.pos.turn # player_color)

ShouldEngineMoveWitness ==
    /\ game_mode = "player_vs_engine"
    /\ board.pos.turn = BLACK
    /\ should_engine_move

(***************************************************************************)
(* C6: in a game played from the starting position by moves and undos, the *)
(* log of k half-moves has ceil(k/2) entries, entry i being "i. " and      *)
(* White's SAN, followed by " " and Black's SAN once Black has moved.      *)
(***************************************************************************)
LogMatchesGame ==
    lock = 0 =>
        /\ move_history = ExpectedLog(board.stack)
        /\ \A i \in 1..Len(board.stack) :
               board.stack[i].prev.turn = (IF i % 2 = 1 THEN WHITE ELSE BLACK)

\* An undo has taken Black's half-move off the first pair.
LogMatchesGameWitness ==
    /\ lock = 0
    /\ Len(board.stack) = 1
    /\ \E t \in Threads : pc[t] = "done" /\ loc[t].op = "undo" /\ loc[t].ret = "True"

(***************************************************************************)
(* C7: between requests, the number of half-moves in the log is even when  *)
(* White is to move and odd when Black is to move.                         *)
(***************************************************************************)
LogParityAgreesWithTurn ==
    (\A t \in Threads : pc[t] \in YieldPcs) =>
        board.pos.turn = SideAfter(HalfMoves(move_history))

(***************************************************************************)
(* C8: no snapshot shows a position that has advanced past its move log:   *)
(* in a game played from the starting position the side to move of every   *)
(* snapshot is the one its log stands for.                                 *)
(***************************************************************************)
SnapshotNeverTorn ==
    \A t \in Threads :
        (pc[t] = "done" /\ loc[t].op = "game_state") =>
            LET state == loc[t].snap[1]
            IN  state.turn = SideAfter(HalfMoves(state.move_history))

(***************************************************************************)
(* C9: a thread that waits for the engine's reply does not hold the lock,  *)
(* and an engine task holds it only inside make_move, to commit the move.  *)
(***************************************************************************)
SearchHoldsNoLock ==
    \A t \in Threads :
        /\ pc[t] \in {"ge_guard", "ge_set", "ge_wait", "ge_finally"} => lock # t
        /\ (lock = t /\ loc[t].op = "task") => pc[t] = "mm_commit"

\* While one thread waits for the engine, an undo holds the lock.
SearchHoldsNoLockWitness ==
    \E t, u \in Threads : pc[t] = "ge_wait" /\ pc[u] = "un_commit" /\ lock = u

(***************************************************************************)
(* C10: engine_thinking is true exactly while an engine-move computation   *)
(* is in flight.                                                           *)
(***************************************************************************)
ThinkingIffInFlight ==
    /\ (\E t \in Threads : InFlight(t)) => engine_thinking
    /\ (\A t \in Threads : ~InFlight(t) /\ pc[t] # "ge_finally") => ~engine_thinking

(***************************************************************************)
(* C11: a select-square request changes selected_square only in a state    *)
(* where engine_thinking is false and no battle is active in               *)
(* engine_vs_engine mode.                                                  *)
(***************************************************************************)
SelectionWriteGuarded ==
    [][\A t \in Threads :
        (SelectWrite(t) /\ selected_square' # selected_square) =>
            /\ ~engine_thinking
            /\ ~(game_mode = "engine_vs_engine" /\ engine_battle_active)]_vars

(***************************************************************************)
(* C12: between requests, when selected_square is set its square holds a   *)
(* piece of the side to move, which in player_vs_engine mode is the        *)
(* player's color.                                                         *)
(***************************************************************************)
SelectionIsOwnPiece ==
    ((\A t \in Threads : pc[t] \in YieldPcs) /\ selected_square # None) =>
        LET color == PieceColorAt(board.pos, Square(selected_square[1], selected_square[2]))
        IN  /\ color # NoPiece
            /\ color = board.pos.turn
            /\ game_mode = "player_vs_engine" => color = player_color

(***************************************************************************)
(* C13: right after make_move has returned True, and right after a         *)
(* set-mode request has succeeded, selected_square is None.                *)
(***************************************************************************)
SelectionClearedByMoveAndMode ==
    \A t \in Threads :
        (\/ MoveReturnedTrue(t)
         \/ pc[t] = "done" /\ loc[t].op = "set_game_mode" /\ loc[t].ret = "True")
            => selected_square = None

(***************************************************************************)
(* C14: a successful set-mode request leaves the requested mode set and    *)
(* engine_battle_active false, and a battle loop that was running when the *)
(* mode was set begins no further iteration: it pushes no engine move in   *)
(* an iteration begun after the request.                                   *)
(***************************************************************************)
SetModeStopsBattle ==
    /\ [](\A t \in Threads :
            (pc[t] = "mm_commit" /\ loc[t].op = "battle") => ~loc[t].late)
    /\ [][\A t \in Threads : \A data \in ModeInputs :
            (SetGameMode(t, data, "ok") /\ loc'[t].ret = "True") =>
                /\ game_mode' = RequestedMode(data)
                /\ ~engine_battle_active']_vars

(***************************************************************************)
(* C15: a battle loop counts at most max_moves half-moves, leaves          *)
(* engine_battle_active false when it stops, and its exit does not clear   *)
(* the flag of a battle that another loop is running.                      *)
(***************************************************************************)
BattleExitsCleanly ==
    /\ [](\A t \in Threads : loc[t].move_count <= max_moves)
    /\ [][\A t \in Threads :
            BattleExit(t) =>
                /\ ~engine_battle_active'
                /\ engine_battle_active =>
                    ~\E u \in Threads \ {t} :
                        loc[u].op = "battle" /\ pc[u] \notin {"done", "bt_exit"}]_vars

(***************************************************************************)
(* C16: the engine time budget of every game stays above 0.1 and at most   *)
(* 60 seconds and its strength within 0..20; a request carrying a value    *)
(* outside these bounds is answered as not successful and leaves that      *)
(* setting as it was.                                                      *)
(***************************************************************************)
TimeOutOfBounds(field) ==
    field # <<>> /\ field[1].ok /\ ~(10 < field[1].val /\ field[1].val <= 6000)

LevelOutOfBounds(field) ==
    field # <<>> /\ field[1].ok /\ ~(0 <= field[1].val /\ field[1].val <= 20)

SettingsStayInBounds ==
    /\ [](\A id \in SessionIds :
            games[id].serial # 0 =>
                /\ 10 < games[id].engine_time_limit
                /\ games[id].engine_time_limit <= 6000
                /\ games[id].engine_level \in 0..20)
    /\ [][\A t \in Threads : \A data \in SettingsInputs :
            SetEngineSettings(t, data[1], data[2]) =>
                /\ TimeOutOfBounds(data[1]) =>
                    /\ loc'[t].ret = "False"
                    /\ games'[loc[t].sid].engine_time_limit
                           = games[loc[t].sid].engine_time_limit
                /\ LevelOutOfBounds(data[2]) =>
                    /\ loc'[t].ret = "False"
                    /\ games'[loc[t].sid].engine_level
                           = games[loc[t].sid].engine_level]_vars

(***************************************************************************)
(* C20: at most one ChessGame is ever constructed for a session            *)
(* identifier, also when requests with the same new identifier overlap;    *)
(* the game of an identifier is never replaced, every request acts on it,  *)
(* and a request changes no game of another identifier.                    *)
(***************************************************************************)
OneGamePerSession ==
    /\ [](\A id \in SessionIds :
            /\ made[id] <= 1
            /\ games[id].serial # 0 => made[id] = 1)
    /\ [](\A t \in Threads :
            (pc[t] = "done" /\ loc[t].op = "settings") =>
                /\ loc[t].snap[1] # 0
                /\ loc[t].snap[1] = games[loc[t].sid].serial)
    /\ [][\A id \in SessionIds :
            games[id].serial # 0 => games'[id].serial = games[id].serial]_vars
    /\ [][\A t \in Threads :
            (pc[t] = "gg_ret" /\ pc'[t] = "done") =>
                \A id \in SessionIds \ {loc[t].sid} : games'[id] = games[id]]_vars

\* Two requests with the same new identifier are inside get_game, one about to
\* construct the game and the other waiting for games_lock, while the other
\* session has its game.
OneGamePerSessionWitness ==
    \E t \in Threads : \E u \in Threads \ {t} :
        /\ pc[t] = "gg_create"
        /\ pc[u] = "gg_enter"
        /\ loc[u].sid = loc[t].sid
        /\ games[loc[t].sid].serial = 0
        /\ \E id \in SessionIds \ {loc[t].sid} : games[id].engine_level # 15 /\ games[id].serial # 0

(***************************************************************************)
(* C19: a move request that lacks a square, a select request that lacks a  *)
(* coordinate, a set-mode request whose mode is missing or unknown and a   *)
(* set-FEN request whose FEN is missing or invalid are answered with       *)
(* success false and leave every field of the session as it was.           *)
(***************************************************************************)
Refused(t) == loc'[t].ret = "False" /\ UNCHANGED gameVars

InvalidInputRejected ==
    [][\A t \in Threads :
        /\ \A mv \in MoveInputs :
            ((mv[1] = None \/ mv[2] = None) /\ StartMoveRequest(t, mv[1], mv[2], mv[3]))
                => Refused(t)
        /\ \A sq \in CoordInputs :
            (Len(sq) < 2 /\ SelectStart(t, sq)) => Refused(t)
        /\ \A data \in ModeInputs : \A out \in EngineOutcomes :
            ((data = <<>> \/ data[1] \notin Modes) /\ SetGameMode(t, data, out))
                => Refused(t)
        /\ \A fen \in FenInputs :
            ((fen = None \/ ~FenValid(fen)) /\ SetPositionStart(t, fen))
                => Refused(t)]_vars

(***************************************************************************)
(* C17: a load that was given a file ends with the game reset and the      *)
(* move tokens of the file replayed in order from the starting position up *)
(* to the first token that is no move or not legal: it answers failure     *)
(* naming that token and leaves the moves before it applied, or answers    *)
(* success with all of them applied; the log is that of the moves applied. *)
(***************************************************************************)
RECURSIVE Replay(_, _)
Replay(b, tokens) ==
    IF Len(tokens) = 0 THEN [board |-> b, ret |-> "True"]
    ELSE LET parsed == FromUci(Head(tokens))
         IN  IF ~parsed.ok
             THEN [board |-> b, ret |-> "Invalid move format: " \o Head(tokens)]
             ELSE IF parsed.move \notin legal_moves(b.pos)
             THEN [board |-> b, ret |-> "Illegal move: " \o Head(tokens)]
             ELSE Replay(Push(b, parsed.move), Tail(tokens))

SaveLoadRoundTrip ==
    \A t \in Threads :
        (pc[t] = "done" /\ loc[t].op = "load" /\ loc[t].saved) =>
            /\ loc[t].ret = "True"
            /\ board.pos = download.pos
            /\ move_history = download.log

(***************************************************************************)
(* C21: make_move called for a move request while engine_thinking is true  *)
(* returns False and leaves the board as it was.                           *)
(***************************************************************************)
MoveRejectedWhileThinking ==
    [][\A t \in Threads :
        (MakeMoveCheck(t) /\ loc[t].op = "move" /\ engine_thinking) =>
            /\ loc'[t].ret = "False"
            /\ board' = board]_vars

(***************************************************************************)
(* C22: the move handler starts exactly one engine task, while it does not *)
(* hold the lock, when its move succeeded, the mode is not                 *)
(* player_vs_player, the engine is to move and the game is not over, and   *)
(* none otherwise; a task so started ends either having committed a move   *)
(* or with engine_thinking false.                                          *)
(***************************************************************************)
Started == {u \in Threads : pc[u] # "ge_guard" /\ pc'[u] = "ge_guard"}

EngineUnitDispatched ==
    /\ [][\A t \in Threads :
            MoveRequestTail(t) =>
                /\ lock # t
                /\ Cardinality(Started) <= 1
                /\ (loc[t].ret = "True" /\ should_engine_move /\ ~is_game_over(board.pos))
                        => Cardinality(Started) = 1
                /\ (\/ loc[t].ret # "True"
                    \/ game_mode = "player_vs_player"
                    \/ is_game_over(board.pos)) => Started = {}]_vars
    /\ [][\A u \in Threads :
            (loc[u].op = "task" /\ pc[u] \in {"ge_guard", "ge_finally"} /\ pc'[u] = "done")
                => (loc'[u].ret = "True" \/ ~engine_thinking')]_vars

(***************************************************************************)
(* C23: an engine computation that fails leaves the board and the log as   *)
(* they were, engine_thinking is cleared after it, and the battle loop     *)
(* that ran it breaks and clears engine_battle_active; a battle loop's     *)
(* cycle fails only by such a failure of the engine, unless the game is    *)
(* over or the battle was cancelled.                                       *)
(***************************************************************************)
EngineFailureHaltsBattle ==
    /\ [][\A t \in Threads :
            /\ (pc[t] = "ge_wait" /\ pc'[t] = "ge_finally")
                    => (board' = board /\ move_history' = move_history)
            /\ GetEngineMoveFinally(t) => ~engine_thinking'
            /\ (BattleAfter(t) /\ loc[t].ret # "True") => pc'[t] = "bt_exit"
            /\ BattleExit(t) => ~engine_battle_active']_vars
    /\ [][\A t \in Threads :
            (loc[t].op = "battle" /\ pc[t] = "ge_guard" /\ pc'[t] = "bt_after")
                => (is_game_over(board.pos) \/ ~engine_battle_active)]_vars

(***************************************************************************)
(* C24: at most one battle loop is inside an iteration at any time.        *)
(***************************************************************************)
AtMostOneBattleLoop ==
    Cardinality({t \in Threads :
        loc[t].op = "battle" /\ pc[t] \notin {"bt_test", "bt_exit", "done"}}) <= 1

(***************************************************************************)
(* C25: make_move applies an engine's move only to the position that was   *)
(* sent to the engine.                                                     *)
(***************************************************************************)
EngineMoveForItsPosition ==
    [][\A t \in Threads :
        (MakeMoveCheck(t) /\ loc[t].op \in {"task", "battle"} /\ board' # board)
            => board.pos = loc[t].sent]_vars
====
